---- MODULE Spec2Model ----
(***************************************************************************)
(* A model of src/src/swap.swaps/BtcSwap.js: the Bitcoin HTLC engine       *)
(* (fundScript, withdraw, refund, checkScript, filterConfidentUnspents,    *)
(* getTxFee) running against a chain gateway.                              *)
(*                                                                         *)
(* Spec      : fundScript / withdraw / refund invocations of one engine    *)
(*             instance, one after another, each a step per await point,   *)
(*             against a UTXO chain.                                       *)
(* SpecCheck : one checkScript invocation with its confidence filter, the  *)
(*             per-UTXO lookups completing in any order.                   *)
(* SpecPair  : two swaps whose fundScript / withdraw / refund invocations  *)
(*             interleave at their await points.                           *)
(* SpecShared: a fundScript, a withdraw and a checkScript with one lookup  *)
(*             that interleave and share this.feeValue.                    *)
(***************************************************************************)
EXTENDS Integers, Sequences, FiniteSets, TLC

VARIABLES
  options,    \* which optional collaborators the constructor was given
  feeValue,   \* this.feeValue, the shared field getTxFee writes
  utxos,      \* the chain's unspent outputs
  chain,      \* the transactions the chain has accepted
  inv,        \* the invocations in flight, one per caller slot
  nInv,       \* how many invocations were started
  cs          \* the checkScript invocation

vars == <<options, feeValue, utxos, chain, inv, nInv, cs>>

-----------------------------------------------------------------------------
(* Bounds of the model *)

MaxFee == 2
MaxAmount == 2
MaxInvocations == 2
MaxLockTime == 1
MaxUnspents == 2
MaxSatoshis == 2

(* Program constants *)

DefaultFeeValue == 546

\* the caller slots: Spec drives one invocation at a time through slot "a"
Procs == {"a", "b"}

Callers == {"a"}

\* A BigNumber of satoshis is kept in units of a quarter of a satoshi, so that
\* the rounding of integerValue() is modelled: BN(n) is BigNumber(n) for a whole n
BN(n) == 4 * n

\* estimateFeeValue answers in whole satoshis (spec 3: monetary values are
\* integers of satoshis at component boundaries)
FeeQuotes == {BN(q) : q \in 0..MaxFee}
\* data.amount times 1e8, a decimal BTC amount as a BigNumber of satoshis, in
\* quarters of a satoshi
Amounts == 1..MaxAmount
\* scriptValues.lockTime: none, or one later time (the engine copies the value
\* and compares it, nothing else)
LockTimes == {0, MaxLockTime}

-----------------------------------------------------------------------------
(* Values *)

\* String.prototype.toLowerCase on a value that carries its letter case
toLowerCase(x) == [x EXCEPT !.case = "lower"]

CaseVariants(x) == {[x EXCEPT !.case = c] : c \in {"lower", "upper"}}

\* this.app.services.auth.accounts.btc.getAddress()
getAddress == [kind |-> "p2pkh", hash |-> <<2>>, case |-> "lower"]

OtherAddress == [kind |-> "p2pkh", hash |-> <<9>>, case |-> "lower"]

\* data.destinationAddress left out by the caller
NoAddress == [kind |-> "none", hash |-> <<>>, case |-> "lower"]

DestinationAddresses ==
  {NoAddress, OtherAddress, [getAddress EXCEPT !.case = "upper"]}

ScriptValues ==
  [secretHash : {7}, ownerPublicKey : {2}, recipientPublicKey : {3},
   lockTime : LockTimes]

\* createScript: the P2SH address is a function of the compiled script, which
\* holds the four script values in order
createScript(data) ==
  [kind |-> "p2sh",
   hash |-> <<data.secretHash, data.recipientPublicKey, data.lockTime,
              data.ownerPublicKey>>,
   case |-> "lower"]

NoTx == [ins |-> {}, outs |-> <<>>, lockTime |-> 0]

\* txRaw.getId(): the hash of the transaction's content (collision free)
getId(tx) == [id |-> tx, case |-> "lower"]

NoErr == [kind |-> "none", total |-> 0, fee |-> 0, fund |-> 0, resText |-> ""]

\* new Error(`Total less than fee: ${total} < ${fee} + ${fund}`) of fundScript
FundTotalLessThanFee(total, fee, fund) ==
  [kind |-> "Total less than fee", total |-> total, fee |-> fee, fund |-> fund,
   resText |-> ""]

\* new Error(`Total less than fee: ${total} < ${fee}`) of getWithdrawRawTransaction
TotalLessThanFee(total, fee) ==
  [kind |-> "Total less than fee", total |-> total, fee |-> fee, fund |-> 0,
   resText |-> ""]

\* what broadcastTx throws when the node answers "non-final"
NonFinalError ==
  [kind |-> "gateway", total |-> 0, fee |-> 0, fund |-> 0, resText |-> "non-final"]

\* what any gateway call can throw
OtherError ==
  [kind |-> "gateway", total |-> 0, fee |-> 0, fund |-> 0, resText |-> ""]

GatewayErrors == {OtherError}

NoValue == [str |-> "", err |-> NoErr, txId |-> getId(NoTx)]

Pending == [state |-> "pending", value |-> NoValue]

\* resolve(value) of a Promise executor
Resolve(value) == [state |-> "resolved", value |-> value]

\* reject(reason, ...rest) of a Promise executor: only the first argument is
\* the rejection reason
Reject(reason, rest) == [state |-> "rejected", value |-> reason]

StrValue(s) == [NoValue EXCEPT !.str = s]
ErrValue(e) == [NoValue EXCEPT !.err = e]
TxIdValue(t) == [NoValue EXCEPT !.txId = t]

RECURSIVE SumSatoshis(_)
\* unspents.reduce((summ, { satoshis }) => summ + satoshis, 0)
SumSatoshis(unspents) ==
  IF unspents = {} THEN 0
  ELSE LET u == CHOOSE x \in unspents : TRUE
       IN u.satoshis + SumSatoshis(unspents \ {u})

\* an integerValue that drops the fraction (ROUND_DOWN); the property of the
\* amount conversion tells it from integerValue()
integerValueDown(h) == h \div 4

\* BigNumber.prototype.integerValue() rounds with ROUNDING_MODE, which is
\* ROUND_HALF_UP unless configured; h is in quarters of a satoshi, the result in
\* satoshis
integerValue(h) == (h + 2) \div 4

-----------------------------------------------------------------------------
(* The chain behind the gateway (fetchUnspents, broadcastTx, fetchTxInfo,  *)
(* checkWithdraw, estimateFeeValue)                                        *)

\* the script values of the leg the counterparty has funded already
FundedScriptValues == CHOOSE v \in ScriptValues : v.lockTime = MaxLockTime

\* the chain before the first invocation: two coins of the local account and
\* one satoshi at the script address of the counterparty's leg
GenesisTx ==
  [ins |-> {},
   outs |-> <<[address |-> getAddress, value |-> MaxSatoshis],
              [address |-> getAddress, value |-> 1],
              [address |-> createScript(FundedScriptValues), value |-> 1]>>,
   lockTime |-> 0]

\* the unspent outputs a transaction creates
OutputsOf(tx) ==
  {[txid |-> getId(tx), vout |-> i - 1, address |-> tx.outs[i].address,
    satoshis |-> tx.outs[i].value] : i \in 1..Len(tx.outs)}

\* the unspent outputs a transaction's inputs name
SpentBy(tx, unspent) ==
  {u \in unspent : \E i \in tx.ins : i.txid = u.txid /\ i.vout = u.vout}

\* fetchUnspents(address): the unspent outputs at the address
fetchUnspents(address) == {u \in utxos : u.address = address}

RECURSIVE SumValues(_)
SumValues(outs) ==
  IF outs = <<>> THEN 0 ELSE Head(outs).value + SumValues(Tail(outs))

\* nLockTime is enforced unless every input has the final sequence number; the
\* chain tip is not modelled: a node may or may not have reached a nLockTime
\* above 0
IsFinal(tx) ==
  \/ tx.lockTime = 0
  \/ \A i \in tx.ins : i.sequence = "0xffffffff"

\* a node accepts a transaction that spends unspent outputs and creates no value
IsValid(tx) ==
  /\ tx.ins # {}
  /\ Cardinality(SpentBy(tx, utxos)) = Cardinality(tx.ins)
  /\ \A i \in 1..Len(tx.outs) : tx.outs[i].value >= 0
  /\ SumValues(tx.outs) <= SumSatoshis(SpentBy(tx, utxos))

\* what broadcastTx(hex) can throw for this transaction, beside a transport failure
BroadcastErrors(tx) ==
  IF IsValid(tx) /\ ~IsFinal(tx) THEN {NonFinalError, OtherError} ELSE {OtherError}

\* the address an input's outpoint pays to (a txid is its transaction's content)
InputAddress(i) == i.txid.id.outs[i.vout + 1].address

\* the accepted transactions that spend outputs of the address
SpendsOf(address) == {tx \in chain : \E i \in tx.ins : InputAddress(i) = address}

\* the accepted transactions that pay to the address
PaymentsTo(address) ==
  {tx \in chain : \E i \in 1..Len(tx.outs) : tx.outs[i].address = address}

\* checkWithdraw(scriptAddress): null, or {address, txid} of a spend of the
\* script address, the address in the letter case the gateway likes
NoWithdraw == [found |-> FALSE, address |-> NoAddress, txid |-> getId(NoTx)]

checkWithdrawResults(scriptAddress) ==
  IF SpendsOf(scriptAddress) = {} THEN {NoWithdraw}
  ELSE UNION {{[found |-> TRUE, address |-> a, txid |-> getId(tx)] :
                 a \in CaseVariants(tx.outs[1].address)} :
              tx \in SpendsOf(scriptAddress)}

\* fetchTxInfo(txid): undefined from the constructor's default (() => {}); from a
\* gateway, null or the record of an accepted transaction (its indexer may lag)
Undefined ==
  [defined |-> FALSE, txid |-> getId(NoTx), senderAddress |-> NoAddress, fees |-> 0]

fetchTxInfoResults(txid) ==
  IF ~options.fetchTxInfo THEN {Undefined}
  ELSE {Undefined} \cup
       {[defined |-> TRUE, txid |-> t, senderAddress |-> a, fees |-> 0] :
          t \in {x \in CaseVariants(txid) : x.id \in chain},
          a \in {getAddress, NoAddress}}

\* what estimateFeeValue answers: the constructor's default is (() => 0)
DefaultEstimate == 0

EstimateFeeValues ==
  IF options.estimateFeeValue THEN FeeQuotes ELSE {BN(DefaultEstimate)}

-----------------------------------------------------------------------------
(* An invocation of fundScript, withdraw or refund *)

\* the locals of an invocation, with what the properties observe of it: the
\* gateway calls it made (log), the hashes its callback got (hashes), whether
\* its script address was funded or spent when it started (fundedBefore,
\* spentBefore) and whether this.feeValue held another estimate than its own
\* when it resumed from getTxFee (overwritten)
Idle ==
  [op |-> "idle", pc |-> "idle",
   scriptValues |-> CHOOSE v \in ScriptValues : v.lockTime = 0,
   amount |-> 0, callback |-> FALSE, isRefund |-> FALSE,
   destinationAddress |-> NoAddress,
   unspents |-> {}, quote |-> 0, feeValue |-> 0, fundValue |-> 0,
   totalUnspent |-> 0, txRaw |-> NoTx, alreadyWithdrawed |-> FALSE,
   caught |-> NoErr, promise |-> Pending, log |-> <<>>, hashes |-> <<>>,
   fundedBefore |-> FALSE, spentBefore |-> FALSE, overwritten |-> FALSE]

\* a caller slot is free between invocations; slot "b" holds the invocations
\* started while the one of slot "a" is in flight
Busy(p) == inv[p].pc \notin {"idle", "done"}

CanStart(p) ==
  /\ ~Busy(p)
  /\ nInv < MaxInvocations
  /\ p = "b" => Busy("a")

Settle(p, fields, promise) ==
  inv' = [inv EXCEPT ![p] = [fields EXCEPT !.pc = "done", !.promise = promise]]

\* a catch block that broadcasts again instead of rejecting; No retry tells it
\* from lines 305-311
FundCatchRetrying(p, fields, err) ==
  inv' = [inv EXCEPT ![p] = [fields EXCEPT !.pc = "broadcastTx",
                                           !.log = Append(@, "broadcastTx")]]

\* lines 305-311: both catch blocks of fundScript reject with the error caught
FundCatch(p, fields, err) ==
  Settle(p, [fields EXCEPT !.caught = err], Reject(ErrValue(err), <<>>))

\* a change output that forgets the fee; Funding conservation tells it from
\* the skipValue of line 281
skipValueWithoutFee(totalUnspent, fundValue, fee) == totalUnspent - fundValue

\* a getTxFee that hands back the shared field instead of its own estimate;
\* the property of the shared fee field tells it from lines 79-84
ReturnedFeeOfField(estimatedFee, sharedFeeValue) == sharedFeeValue

\* lines 79-84: getTxFee returns the estimate it got itself (inSatoshis is
\* true at every call), not this.feeValue, which it has just written and which
\* another getTxFee may write before the caller resumes
ReturnedFee(estimatedFee, sharedFeeValue) == estimatedFee

\* line 281: what is left for the change output
skipValue(totalUnspent, fundValue, fee) == totalUnspent - fundValue - fee

\* an insufficient-funds test that also refuses an exact total; the property of
\* repeated funding tells it from the test of line 283
FundInsufficientOrEqual(totalUnspent, fee, fundValue) ==
  totalUnspent <= fee + fundValue

\* an insufficient-funds test that forgets the fee; Funder insufficient funds
\* tells it from the test of line 283
FundInsufficientWithoutFee(totalUnspent, fee, fundValue) ==
  totalUnspent < fundValue

\* line 283: the funder's insufficient-funds test
FundInsufficient(totalUnspent, fee, fundValue) == totalUnspent < fee + fundValue

\* a funder that leaves out the unspents another invocation in flight has
\* selected; the property of concurrent funding tells it from lines 287-289
FundTxUnreserved(unspents, scriptAddress, fundValue, change) ==
  [ins |-> {[txid |-> u.txid, vout |-> u.vout, sequence |-> "0xffffffff"] :
              u \in {x \in unspents :
                       \A q \in Procs :
                         inv[q].pc \in {"idle", "done"}
                         \/ \A i \in inv[q].txRaw.ins :
                              i.txid # x.txid \/ i.vout # x.vout}},
   outs |-> <<[address |-> scriptAddress, value |-> fundValue],
              [address |-> getAddress, value |-> change]>>,
   lockTime |-> 0]

\* lines 287-289: every unspent as an input (addInput's default sequence), the
\* script output, then the change output
FundTx(unspents, scriptAddress, fundValue, change) ==
  [ins |-> {[txid |-> u.txid, vout |-> u.vout, sequence |-> "0xffffffff"] :
              u \in unspents},
   outs |-> <<[address |-> scriptAddress, value |-> fundValue],
              [address |-> getAddress, value |-> change]>>,
   lockTime |-> 0]

\* a funder that tells the caller the hash after it has called broadcastTx;
\* Funding callback order tells it from lines 296-301
FundCallsBroadcastFirst(callback) ==
  IF callback THEN <<"broadcastTx", "handleTransactionHash">> ELSE <<"broadcastTx">>

\* lines 296-301: handleTransactionHash when it is a function, then broadcastTx
FundCalls(callback) ==
  IF callback THEN <<"handleTransactionHash", "broadcastTx">> ELSE <<"broadcastTx">>

\* a destination that ignores the caller's; Redeem transaction shape tells it
\* from line 351
destAddressOfOwner(destinationAddress) == getAddress

\* line 351
destAddress(destinationAddress) ==
  IF destinationAddress # NoAddress THEN destinationAddress ELSE getAddress

\* line 362: BigNumber(totalUnspent).isLessThan(feeValue)
WithdrawInsufficient(totalUnspent, fee) == totalUnspent < fee

\* lines 366-367: the detector's report names the caller's destination
HasWithdraw(hasWithdraw, dest) ==
  /\ hasWithdraw.found
  /\ toLowerCase(hasWithdraw.address) = toLowerCase(dest)

\* a builder that never sets nLockTime; Refund gated by timelock tells it from
\* lines 382-384
WithdrawLockTimeZero(isRefund, scriptValues) == 0

\* lines 382-384: TransactionBuilder starts with nLockTime 0
WithdrawLockTime(isRefund, scriptValues) ==
  IF isRefund THEN scriptValues.lockTime ELSE 0

\* line 386
WithdrawSequence == "0xfffffffe"

\* lines 382-389
WithdrawTx(unspents, isRefund, scriptValues, dest, totalUnspent, fee) ==
  [ins |-> {[txid |-> u.txid, vout |-> u.vout, sequence |-> WithdrawSequence] :
              u \in unspents},
   outs |-> <<[address |-> dest, value |-> totalUnspent - fee]>>,
   lockTime |-> WithdrawLockTime(isRefund, scriptValues)]

\* /Total less than fee: 0/ on `Total less than fee: ${totalUnspent} < ...`:
\* the decimal text of a natural number starts with 0 only when it is 0
TotalStartsWithZero(total) == total = 0

\* lines 484-501: the catch block of withdraw
errorMessage(error) ==
  IF error.resText = "non-final" THEN StrValue("Try it later")
  ELSE IF error.kind = "Total less than fee"
       THEN IF TotalStartsWithZero(error.total)
            THEN StrValue("Address is empty")
            ELSE StrValue("Less than fee")
       ELSE ErrValue(error)

\* lines 484-502
WithdrawCatch(p, fields, error) ==
  Settle(p, [fields EXCEPT !.caught = error], Reject(errorMessage(error), <<>>))

\* a check that takes a missing answer for a success; the property of an
\* engine without fetchTxInfo tells it from lines 511-521
checkTXLenient(txInfo, txID) ==
  txInfo.defined => toLowerCase(txInfo.txid) = toLowerCase(txID)

\* lines 511-521
checkTX(txInfo, txID) ==
  /\ txInfo.defined
  /\ txInfo.senderAddress # NoAddress
  /\ toLowerCase(txInfo.txid) = toLowerCase(txID)

-----------------------------------------------------------------------------
(* getTxFee, lines 70-85, as fundScript and getWithdrawRawTransaction call  *)
(* it: the estimate answers, getTxFee stores it in this.feeValue and        *)
(* returns it; the caller resumes in a later step                           *)

getTxFee(p) ==
  /\ inv[p].pc = "getTxFee"
  /\ \/ \E quote \in EstimateFeeValues :
          /\ feeValue' = quote
          /\ inv' = [inv EXCEPT ![p].quote = quote, ![p].pc = "getTxFee.return"]
     \/ /\ options.estimateFeeValue
        /\ \E err \in GatewayErrors :
             IF inv[p].op = "fundScript" THEN FundCatch(p, inv[p], err)
             ELSE WithdrawCatch(p, inv[p], err)
        /\ UNCHANGED feeValue
  /\ UNCHANGED <<options, utxos, chain, nInv, cs>>

-----------------------------------------------------------------------------
(* fundScript, lines 266-313 *)

fundScript(p, scriptValues, amount, callback) ==
  /\ CanStart(p)
  /\ nInv' = nInv + 1
  /\ inv' = [inv EXCEPT ![p] =
       [Idle EXCEPT !.op = "fundScript", !.pc = "fetchUnspents",
                    !.scriptValues = scriptValues, !.amount = amount,
                    !.callback = callback,
                    !.fundedBefore = PaymentsTo(createScript(scriptValues)) # {},
                    !.log = <<"fetchUnspents">>]]
  /\ UNCHANGED <<options, feeValue, utxos, chain, cs>>

\* line 275 answers; lines 277-278 run up to the call of getTxFee
FundUnspents(p) ==
  /\ inv[p].op = "fundScript" /\ inv[p].pc = "fetchUnspents"
  /\ \/ inv' = [inv EXCEPT ![p].unspents = fetchUnspents(getAddress),
                           ![p].fundValue = integerValue(inv[p].amount),
                           ![p].pc = "getTxFee",
                           ![p].log = @ \o <<"fetchUnspents.ok", "estimateFeeValue">>]
     \/ \E err \in GatewayErrors : FundCatch(p, inv[p], err)
  /\ UNCHANGED <<options, feeValue, utxos, chain, nInv, cs>>

\* getTxFee has returned; lines 279-301 run up to the broadcast
FundFee(p) ==
  /\ inv[p].op = "fundScript" /\ inv[p].pc = "getTxFee.return"
  /\ LET fee == integerValue(ReturnedFee(inv[p].quote, feeValue))
         totalUnspent == SumSatoshis(inv[p].unspents)
         fundValue == inv[p].fundValue
         tx == FundTx(inv[p].unspents, createScript(inv[p].scriptValues),
                      fundValue, skipValue(totalUnspent, fundValue, fee))
         got == [inv[p] EXCEPT !.feeValue = fee,
                               !.totalUnspent = totalUnspent,
                               !.overwritten = feeValue # inv[p].quote,
                               !.log = Append(@, "estimateFeeValue.ok")]
     IN IF FundInsufficient(totalUnspent, fee, fundValue)
        THEN FundCatch(p, got, FundTotalLessThanFee(totalUnspent, fee, fundValue))
        ELSE inv' = [inv EXCEPT ![p] =
               [got EXCEPT !.txRaw = tx, !.pc = "broadcastTx",
                  !.hashes = IF inv[p].callback THEN <<getId(tx)>> ELSE <<>>,
                  !.log = @ \o FundCalls(inv[p].callback)]]
  /\ UNCHANGED <<options, feeValue, utxos, chain, nInv, cs>>

\* the chain takes the transaction
Accept(tx) ==
  /\ IsValid(tx)
  /\ utxos' = (utxos \ SpentBy(tx, utxos)) \cup OutputsOf(tx)
  /\ chain' = chain \cup {tx}

\* line 301 answers; lines 303-307
FundBroadcast(p) ==
  /\ inv[p].op = "fundScript" /\ inv[p].pc = "broadcastTx"
  /\ \/ /\ Accept(inv[p].txRaw)
        /\ Settle(p, [inv[p] EXCEPT !.log = Append(@, "broadcastTx.ok")],
                  Resolve([NoValue EXCEPT !.str = "broadcast result",
                                          !.txId = getId(inv[p].txRaw)]))
     \/ /\ \E err \in BroadcastErrors(inv[p].txRaw) :
             FundCatch(p, [inv[p] EXCEPT !.log = Append(@, "broadcastTx.throw")], err)
        /\ UNCHANGED <<utxos, chain>>
  /\ UNCHANGED <<options, feeValue, nInv, cs>>

-----------------------------------------------------------------------------
(* withdraw and refund, lines 457-504 and 531-533, with                    *)
(* getWithdrawRawTransaction, lines 349-407                                *)

withdraw(p, scriptValues, destinationAddress, isRefund) ==
  /\ CanStart(p)
  /\ nInv' = nInv + 1
  /\ inv' = [inv EXCEPT ![p] =
       [Idle EXCEPT !.op = "withdraw", !.pc = "fetchUnspents",
                    !.scriptValues = scriptValues, !.isRefund = isRefund,
                    !.destinationAddress = destinationAddress,
                    !.spentBefore =
                       /\ SpendsOf(createScript(scriptValues)) # {}
                       /\ fetchUnspents(createScript(scriptValues)) = {},
                    !.log = <<"fetchUnspents">>]]
  /\ UNCHANGED <<options, feeValue, utxos, chain, cs>>

refund(p, scriptValues, destinationAddress) ==
  withdraw(p, scriptValues, destinationAddress, TRUE)

\* line 356 answers; line 358 runs up to the call of getTxFee
WithdrawUnspents(p) ==
  /\ inv[p].op = "withdraw" /\ inv[p].pc = "fetchUnspents"
  /\ \/ inv' = [inv EXCEPT
                  ![p].unspents = fetchUnspents(createScript(inv[p].scriptValues)),
                  ![p].pc = "getTxFee",
                  ![p].log = @ \o <<"fetchUnspents.ok", "estimateFeeValue">>]
     \/ \E err \in GatewayErrors : WithdrawCatch(p, inv[p], err)
  /\ UNCHANGED <<options, feeValue, utxos, chain, nInv, cs>>

\* getTxFee has returned; lines 359-405 and 460-469 run up to checkWithdraw or
\* to the broadcast
WithdrawFee(p) ==
  /\ inv[p].op = "withdraw" /\ inv[p].pc = "getTxFee.return"
  /\ LET fee == integerValue(ReturnedFee(inv[p].quote, feeValue))
         totalUnspent == SumSatoshis(inv[p].unspents)
         tx == WithdrawTx(inv[p].unspents, inv[p].isRefund, inv[p].scriptValues,
                          destAddress(inv[p].destinationAddress),
                          totalUnspent, fee)
         got == [inv[p] EXCEPT !.feeValue = fee,
                               !.totalUnspent = totalUnspent,
                               !.overwritten = feeValue # inv[p].quote,
                               !.log = Append(@, "estimateFeeValue.ok")]
     IN IF WithdrawInsufficient(totalUnspent, fee)
        THEN IF options.checkWithdraw
             THEN inv' = [inv EXCEPT ![p] =
                    [got EXCEPT !.pc = "checkWithdraw",
                                !.log = Append(@, "checkWithdraw")]]
             ELSE WithdrawCatch(p, got, TotalLessThanFee(totalUnspent, fee))
        ELSE inv' = [inv EXCEPT ![p] =
               [got EXCEPT !.txRaw = tx, !.pc = "broadcastTx",
                           !.log = Append(@, "broadcastTx")]]
  /\ UNCHANGED <<options, feeValue, utxos, chain, nInv, cs>>

\* line 365 answers; lines 366-376 and 462-465
WithdrawProbe(p) ==
  /\ inv[p].op = "withdraw" /\ inv[p].pc = "checkWithdraw"
  /\ \/ \E hasWithdraw \in checkWithdrawResults(createScript(inv[p].scriptValues)) :
          IF HasWithdraw(hasWithdraw, destAddress(inv[p].destinationAddress))
          THEN Settle(p, [inv[p] EXCEPT !.alreadyWithdrawed = TRUE,
                                        !.log = Append(@, "checkWithdraw.ok")],
                      Resolve(TxIdValue(hasWithdraw.txid)))
          ELSE WithdrawCatch(p, [inv[p] EXCEPT !.log = Append(@, "checkWithdraw.ok")],
                 TotalLessThanFee(inv[p].totalUnspent, inv[p].feeValue))
     \/ \E err \in GatewayErrors : WithdrawCatch(p, inv[p], err)
  /\ UNCHANGED <<options, feeValue, utxos, chain, nInv, cs>>

\* line 469 answers
WithdrawBroadcast(p) ==
  /\ inv[p].op = "withdraw" /\ inv[p].pc = "broadcastTx"
  /\ \/ /\ Accept(inv[p].txRaw)
        /\ inv' = [inv EXCEPT ![p].pc = "waitDelay",
                              ![p].log = Append(@, "broadcastTx.ok")]
     \/ /\ \E err \in BroadcastErrors(inv[p].txRaw) :
             WithdrawCatch(p, [inv[p] EXCEPT !.log = Append(@, "broadcastTx.throw")], err)
        /\ UNCHANGED <<utxos, chain>>
  /\ UNCHANGED <<options, feeValue, nInv, cs>>

\* line 473: the delay elapses; line 475 calls checkTX, which calls fetchTxInfo
WithdrawDelay(p) ==
  /\ inv[p].op = "withdraw" /\ inv[p].pc = "waitDelay"
  /\ inv' = [inv EXCEPT ![p].pc = "checkTX",
                        ![p].log = @ \o <<"waitDelay", "fetchTxInfo">>]
  /\ UNCHANGED <<options, feeValue, utxos, chain, nInv, cs>>

\* line 512 answers; lines 513-520 and 477-482
WithdrawCheckTX(p) ==
  /\ inv[p].op = "withdraw" /\ inv[p].pc = "checkTX"
  /\ LET txId == getId(inv[p].txRaw)
     IN \/ \E txInfo \in fetchTxInfoResults(txId) :
             IF checkTX(txInfo, txId)
             THEN Settle(p, [inv[p] EXCEPT !.log = Append(@, "fetchTxInfo.found")],
                         Resolve(TxIdValue(txId)))
             ELSE Settle(p, [inv[p] EXCEPT !.log = Append(@, "fetchTxInfo.none")],
                         Reject(StrValue("TX not found. Try it later. "), txId))
        \/ /\ options.fetchTxInfo
           /\ \E err \in GatewayErrors : WithdrawCatch(p, inv[p], err)
  /\ UNCHANGED <<options, feeValue, utxos, chain, nInv, cs>>

-----------------------------------------------------------------------------
(* checkScript, lines 231-255, with filterConfidentUnspents, lines 94-135  *)

\* A confidence or a confidence level is the rational n/d: BigNumber's
\* dividedBy(...).toNumber() and isGreaterThanOrEqualTo are exact on the
\* small values of the model
Ratio(n, d) == [n |-> n, d |-> d]

One == Ratio(1, 1)
Zero == Ratio(0, 1)

\* isGreaterThanOrEqualTo
GreaterThanOrEqualTo(a, b) == a.n * b.d >= b.n * a.d

\* the default of expectedConfidenceLevel (lines 94 and 235): 0.95
DefaultConfidence == Ratio(19, 20)

\* expected.confidence left undefined by the caller
NoConfidence == Ratio(0, 0)

ConfidenceLevels == {Zero, Ratio(1, 2), Ratio(3, 2), NoConfidence}

\* line 235
expectedConfidence(expected) ==
  IF expected.confidence # NoConfidence THEN expected.confidence
  ELSE DefaultConfidence

\* line 103
confirmationsToConfidence(confs) == IF confs > 0 THEN One ELSE Zero

\* a confidence from the fees without the cap of line 100; Confidence
\* monotonicity tells it from lines 98-100
feesToConfidenceUncapped(fees, currentFastestFee) ==
  Ratio(BN(fees), currentFastestFee)

\* lines 98-100; fees in satoshis, currentFastestFee a BigNumber
feesToConfidence(fees, currentFastestFee) ==
  IF BN(fees) < currentFastestFee THEN Ratio(BN(fees), currentFastestFee)
  ELSE One

\* line 108: the confidence from the confirmations is enough, no lookup
EarlyReturn(confidenceFromConfirmations, expectedConfidenceLevel) ==
  GreaterThanOrEqualTo(confidenceFromConfirmations, expectedConfidenceLevel)

\* line 133
IsConfident(confidence, expectedConfidenceLevel) ==
  GreaterThanOrEqualTo(confidence, expectedConfidenceLevel)

\* one fetchConfidence call of the map of line 129
NoTask == [pc |-> "done", fees |-> 0, quote |-> 0, confidence |-> Zero]

\* lines 106-113: up to the return of line 109 or the await of line 113
StartTask(unspent, level) ==
  LET confidenceFromConfirmations == confirmationsToConfidence(unspent.confirmations)
  IN IF EarlyReturn(confidenceFromConfirmations, level)
     THEN [NoTask EXCEPT !.pc = "returned", !.confidence = confidenceFromConfirmations]
     ELSE [NoTask EXCEPT !.pc = "fetchTxInfo"]

\* a fallback that trusts a UTXO whose lookup failed; Graceful degradation of
\* confidence tells it from lines 123-125
FallbackTrusting(unspent) == One

\* lines 123-125
Fallback(unspent) == confirmationsToConfidence(unspent.confirmations)

\* the unspents fetchUnspents can answer for the script address
CoinTx(i) == [ins |-> {}, outs |-> <<>>, lockTime |-> i]

\* the i-th unspent holds i satoshis, so that a total tells which were summed
Unspent(i, confirmations) ==
  [txid |-> getId(CoinTx(i)), vout |-> 0, satoshis |-> i,
   confirmations |-> confirmations]

UnspentLists ==
  UNION {{[i \in 1..n |-> Unspent(i, f[i])] : f \in [1..n -> {0, 1}]} :
           n \in 0..MaxUnspents}

\* what fetchTxInfo can answer to fetchConfidence
fetchTxInfoAnswers(txid) ==
  IF ~options.fetchTxInfo THEN {Undefined}
  ELSE {Undefined} \cup
       {[defined |-> TRUE, txid |-> txid, senderAddress |-> getAddress,
         fees |-> f] : f \in 0..MaxFee}

RECURSIVE SumSeq(_)
\* reduce((summ, { satoshis }) => summ + satoshis, 0) on an array
SumSeq(unspents) ==
  IF unspents = <<>> THEN 0
  ELSE Head(unspents).satoshis + SumSeq(Tail(unspents))

RECURSIVE FilterByIndexMirrored(_, _, _, _)
\* a filter that judges each unspent by the confidence at the mirrored index,
\* as if the confidences stood in another order than the unspents; Completion
\* order independence tells it from lines 131-134
FilterByIndexMirrored(unspents, confidences, level, index) ==
  IF index > Len(unspents) THEN <<>>
  ELSE (IF IsConfident(confidences[Len(unspents) + 1 - index], level)
        THEN <<unspents[index]>> ELSE <<>>)
       \o FilterByIndexMirrored(unspents, confidences, level, index + 1)

RECURSIVE FilterByIndex(_, _, _, _)
\* lines 131-134: unspents.filter((utxo, index) => confidences[index] >= level)
FilterByIndex(unspents, confidences, level, index) ==
  IF index > Len(unspents) THEN <<>>
  ELSE (IF IsConfident(confidences[index], level) THEN <<unspents[index]>> ELSE <<>>)
       \o FilterByIndex(unspents, confidences, level, index + 1)

\* a check without the confident-total test of line 252; ScriptChecker
\* soundness tells it from lines 243-255
checkScriptResultUnfiltered(expectedValue, totalUnspent, totalConfidentUnspent, expected, data) ==
  IF expectedValue > totalUnspent THEN "Expected script value"
  ELSE IF expected.lockTime > data.lockTime THEN "Expected script lockTime"
  ELSE IF expected.recipientPublicKey # data.recipientPublicKey
       THEN "Expected script recipient publicKey"
  ELSE ""

\* lines 243-255: the diagnostic, or "" for the undefined an ok check returns
checkScriptResult(expectedValue, totalUnspent, totalConfidentUnspent, expected, data) ==
  IF expectedValue > totalUnspent THEN "Expected script value"
  ELSE IF expected.lockTime > data.lockTime THEN "Expected script lockTime"
  ELSE IF expected.recipientPublicKey # data.recipientPublicKey
       THEN "Expected script recipient publicKey"
  ELSE IF expectedValue > totalConfidentUnspent
       THEN "Expected script value with confidence above"
  ELSE ""

\* the caller's expected record; checkScript reads its fields where it uses
\* them: confidence at line 235, value at line 237, lockTime and
\* recipientPublicKey at lines 246-249
NoExpected ==
  [value |-> 0, lockTime |-> 0, recipientPublicKey |-> 0, confidence |-> NoConfidence]

RecipientPublicKeys == {3, 4}

CheckIdle ==
  [pc |-> "idle",
   data |-> CHOOSE v \in ScriptValues : v.lockTime = 0,
   expected |-> NoExpected,
   level |-> Zero, unspents |-> <<>>, task |-> <<>>,
   expectedValue |-> 0, totalUnspent |-> 0, totalConfidentUnspent |-> 0,
   confidentUnspents |-> <<>>, result |-> "", thrown |-> FALSE]

\* lines 232-236, up to the await of fetchUnspents
checkScript(data, confidence) ==
  /\ cs.pc = "idle"
  /\ LET expected == [NoExpected EXCEPT !.confidence = confidence]
     IN cs' = [CheckIdle EXCEPT !.pc = "fetchUnspents", !.data = data,
                                !.expected = expected,
                                !.level = expectedConfidence(expected)]
  /\ UNCHANGED <<options, feeValue, utxos, chain, inv, nInv>>

\* line 236 answers with one of the lists; lines 237-240 and 129 start one
\* fetchConfidence per unspent
CheckUnspentsOf(lists, values) ==
  /\ cs.pc = "fetchUnspents"
  /\ \/ \E unspents \in lists, value \in values :
          cs' = [cs EXCEPT !.pc = "filter", !.unspents = unspents,
                   !.expected.value = value,
                   !.expectedValue = integerValue(value),
                   !.totalUnspent = SumSeq(unspents),
                   !.task = [i \in 1..Len(unspents) |-> StartTask(unspents[i], cs.level)]]
     \/ \E err \in GatewayErrors : cs' = [cs EXCEPT !.pc = "done", !.thrown = TRUE]
  /\ UNCHANGED <<options, feeValue, utxos, chain, inv, nInv>>

CheckUnspents == CheckUnspentsOf(UnspentLists, Amounts)

\* line 113 answers for the unspent at index; lines 115-121
ConfidenceInfo(index) ==
  /\ cs.pc = "filter"
  /\ index \in 1..Len(cs.task)
  /\ cs.task[index].pc = "fetchTxInfo"
  /\ \/ \E info \in fetchTxInfoAnswers(cs.unspents[index].txid) :
          IF info.defined /\ info.fees # 0
          THEN cs' = [cs EXCEPT !.task[index].pc = "getTxFee",
                                !.task[index].fees = info.fees]
          ELSE cs' = [cs EXCEPT !.task[index].pc = "caught",
                                !.task[index].confidence = Fallback(cs.unspents[index])]
     \/ /\ options.fetchTxInfo
        /\ \E err \in GatewayErrors :
             cs' = [cs EXCEPT !.task[index].pc = "caught",
                              !.task[index].confidence = Fallback(cs.unspents[index])]
  /\ UNCHANGED <<options, feeValue, utxos, chain, inv, nInv>>

\* the estimate getTxFee asked for at line 96 answers for the unspent at index;
\* lines 79-84: getTxFee stores it in this.feeValue and returns it
ConfidenceEstimate(index) ==
  /\ cs.pc = "filter"
  /\ index \in 1..Len(cs.task)
  /\ cs.task[index].pc = "getTxFee"
  /\ \/ \E quote \in EstimateFeeValues :
          /\ feeValue' = quote
          /\ cs' = [cs EXCEPT !.task[index].pc = "getTxFee.return",
                              !.task[index].quote = quote]
     \/ /\ options.estimateFeeValue
        /\ \E err \in GatewayErrors :
             cs' = [cs EXCEPT !.task[index].pc = "caught",
                              !.task[index].confidence = Fallback(cs.unspents[index])]
        /\ UNCHANGED feeValue
  /\ UNCHANGED <<options, utxos, chain, inv, nInv>>

\* getTxFee has returned to line 96 for the unspent at index; lines 98-100,
\* after which the call of feesToConfidence and its currentFastestFee are gone
ConfidenceFee(index) ==
  /\ cs.pc = "filter"
  /\ index \in 1..Len(cs.task)
  /\ cs.task[index].pc = "getTxFee.return"
  /\ LET currentFastestFee == ReturnedFee(cs.task[index].quote, feeValue)
     IN cs' = [cs EXCEPT !.task[index].pc = "computed",
                         !.task[index].quote = 0,
                         !.task[index].confidence =
                            feesToConfidence(cs.task[index].fees, currentFastestFee)]
  /\ UNCHANGED <<options, feeValue, utxos, chain, inv, nInv>>

TaskDone(task) == task.pc \in {"returned", "computed", "caught"}

\* Promise.all of line 129 resolves; lines 131-134 and 241-255, where the
\* caller's expected lockTime and recipientPublicKey are read
CheckDoneOf(lockTimes, recipientPublicKeys) ==
  /\ cs.pc = "filter"
  /\ \A i \in 1..Len(cs.task) : TaskDone(cs.task[i])
  /\ \E lockTime \in lockTimes, recipientPublicKey \in recipientPublicKeys :
       LET confidences == [i \in 1..Len(cs.task) |-> cs.task[i].confidence]
           confidentUnspents == FilterByIndex(cs.unspents, confidences, cs.level, 1)
           totalConfidentUnspent == SumSeq(confidentUnspents)
           expected == [cs.expected EXCEPT !.lockTime = lockTime,
                                           !.recipientPublicKey = recipientPublicKey]
       IN cs' = [cs EXCEPT !.pc = "done",
                   !.expected = expected,
                   !.confidentUnspents = confidentUnspents,
                   !.totalConfidentUnspent = totalConfidentUnspent,
                   !.result = checkScriptResult(cs.expectedValue, cs.totalUnspent,
                                                totalConfidentUnspent, expected, cs.data)]
  /\ UNCHANGED <<options, feeValue, utxos, chain, inv, nInv>>

CheckDone == CheckDoneOf(LockTimes, RecipientPublicKeys)

-----------------------------------------------------------------------------

Init ==
  /\ options \in [estimateFeeValue : BOOLEAN, fetchTxInfo : BOOLEAN,
                  checkWithdraw : BOOLEAN]
  /\ feeValue = BN(DefaultFeeValue)
  /\ utxos = OutputsOf(GenesisTx)
  /\ chain = {GenesisTx}
  /\ inv = [p \in Procs |-> Idle]
  /\ nInv = 0
  /\ cs = CheckIdle

Next ==
  \/ \E p \in Callers, scriptValues \in ScriptValues, amount \in Amounts,
        callback \in BOOLEAN :
       fundScript(p, scriptValues, amount, callback)
  \/ \E p \in Callers, scriptValues \in ScriptValues,
        destinationAddress \in DestinationAddresses :
       \/ withdraw(p, scriptValues, destinationAddress, FALSE)
       \/ refund(p, scriptValues, destinationAddress)
  \/ \E p \in Callers :
       \/ getTxFee(p)
       \/ FundUnspents(p)
       \/ FundFee(p)
       \/ FundBroadcast(p)
       \/ WithdrawUnspents(p)
       \/ WithdrawFee(p)
       \/ WithdrawProbe(p)
       \/ WithdrawBroadcast(p)
       \/ WithdrawDelay(p)
       \/ WithdrawCheckTX(p)

Spec == Init /\ [][Next]_vars

\* checkScript does not use checkWithdraw
InitCheck ==
  /\ Init
  /\ ~options.checkWithdraw

NextCheck ==
  \/ \E data \in ScriptValues, confidence \in ConfidenceLevels :
       checkScript(data, confidence)
  \/ CheckUnspents
  \/ \E index \in 1..MaxUnspents :
       \/ ConfidenceInfo(index)
       \/ ConfidenceEstimate(index)
       \/ ConfidenceFee(index)
  \/ CheckDone

SpecCheck == InitCheck /\ [][NextCheck]_vars

\* two swaps of one engine run at once: the invocation of slot "a" works on
\* the swap whose script has no lockTime, the one of slot "b" on the swap of
\* the funded script; each funds one satoshi or redeems to the owner's address
SwapOf(p) ==
  IF p = "a" THEN CHOOSE v \in ScriptValues : v.lockTime = 0
  ELSE FundedScriptValues

NextPair ==
  \/ \E p \in Procs :
       \/ fundScript(p, SwapOf(p), BN(1), FALSE)
       \/ withdraw(p, SwapOf(p), NoAddress, FALSE)
       \/ refund(p, SwapOf(p), NoAddress)
  \/ \E p \in Procs :
       \/ getTxFee(p)
       \/ FundUnspents(p)
       \/ FundFee(p)
       \/ FundBroadcast(p)
       \/ WithdrawUnspents(p)
       \/ WithdrawFee(p)
       \/ WithdrawProbe(p)
       \/ WithdrawBroadcast(p)
       \/ WithdrawDelay(p)
       \/ WithdrawCheckTX(p)

SpecPair == Init /\ [][NextPair]_vars

\* an engine with every gateway configured, on which a fundScript of one swap,
\* a withdraw of the other (a refund is the same withdraw with isRefund, line
\* 532, and asks for its fee at the same line 358) and a checkScript with the
\* confidence lookup of one unconfirmed UTXO run at once
InitShared ==
  /\ Init
  /\ options.estimateFeeValue
  /\ options.fetchTxInfo
  /\ options.checkWithdraw

NextShared ==
  \/ fundScript("a", SwapOf("a"), BN(1), FALSE)
  \/ withdraw("b", SwapOf("b"), NoAddress, FALSE)
  \/ \E p \in Procs :
       \/ getTxFee(p)
       \/ FundUnspents(p)
       \/ FundFee(p)
       \/ FundBroadcast(p)
       \/ WithdrawUnspents(p)
       \/ WithdrawFee(p)
       \/ WithdrawProbe(p)
       \/ WithdrawBroadcast(p)
       \/ WithdrawDelay(p)
       \/ WithdrawCheckTX(p)
  \/ checkScript(SwapOf("b"), NoConfidence)
  \/ CheckUnspentsOf({<<Unspent(1, 0)>>}, {BN(1)})
  \/ ConfidenceInfo(1)
  \/ ConfidenceEstimate(1)
  \/ ConfidenceFee(1)
  \/ CheckDoneOf({0}, {SwapOf("b").recipientPublicKey})

SpecShared == InitShared /\ [][NextShared]_vars

-----------------------------------------------------------------------------
(* Properties *)

\* the gateway calls and answers an invocation has seen so far
Calls(p) == {inv[p].log[i] : i \in 1..Len(inv[p].log)}

\* where an event first stands in an invocation's log, 0 when it does not
Position(p, e) ==
  IF e \in Calls(p)
  THEN CHOOSE i \in 1..Len(inv[p].log) :
         /\ inv[p].log[i] = e
         /\ \A j \in 1..(i - 1) : inv[p].log[j] # e
  ELSE 0

\* the invocation has ended without a gateway call failing
NoGatewayFailure(p) == inv[p].pc = "done" /\ inv[p].caught.kind # "gateway"

\* every report checkWithdraw can give for the invocation's script address
\* names a spend that pays the invocation's destination
SpendTargetsCaller(p) ==
  \A r \in checkWithdrawResults(createScript(inv[p].scriptValues)) :
    HasWithdraw(r, destAddress(inv[p].destinationAddress))

\* the txids of the spends of the invocation's script address
SpendTxIds(p) ==
  {getId(tx) : tx \in SpendsOf(createScript(inv[p].scriptValues))}

\* C1 (as the specification states it): a withdraw that fetched a total of 0
\* at a script address whose spend, as checkWithdraw reports it, pays the
\* caller's destination never calls broadcastTx, and ends resolved with the
\* txid of that spend and alreadyWithdrawed set.
C1_WithdrawIdempotence ==
  \A p \in Procs :
    (/\ inv[p].op = "withdraw"
     /\ "estimateFeeValue.ok" \in Calls(p)
     /\ inv[p].totalUnspent = 0
     /\ options.checkWithdraw
     /\ SpendTargetsCaller(p))
    => /\ "broadcastTx" \notin Calls(p)
       /\ NoGatewayFailure(p) =>
            /\ inv[p].alreadyWithdrawed
            /\ inv[p].promise.state = "resolved"
            /\ inv[p].promise.value.txId \in SpendTxIds(p)

\* C2 (as the specification states it): once a withdraw or a refund has spent
\* the outputs of a script address, a later withdraw or refund for the same
\* script values (same destination, detector configured) ends with the txid of
\* the existing spend and calls broadcastTx no second time.
C2_TerminalIdempotent ==
  \A p \in Procs :
    (/\ inv[p].op = "withdraw"
     /\ inv[p].spentBefore
     /\ options.checkWithdraw
     /\ SpendTargetsCaller(p))
    => /\ "broadcastTx" \notin Calls(p)
       /\ NoGatewayFailure(p) =>
            /\ inv[p].promise = Resolve(TxIdValue(inv[p].promise.value.txId))
            /\ inv[p].promise.value.txId \in SpendTxIds(p)

\* the funding transactions on chain for the script values: the accepted
\* transactions with inputs whose first output pays the script address
FundingTxs(scriptValues) ==
  {tx \in chain : tx.ins # {} /\ tx.outs[1].address = createScript(scriptValues)}

\* C3 (as the specification states it): a repeated fundScript for the same
\* script values is absorbed, so the chain never holds a second funding
\* transaction for them.
C3_FundIdempotent ==
  \A scriptValues \in ScriptValues : Cardinality(FundingTxs(scriptValues)) <= 1

\* C3 (amended): fundScript has no already-spent path. A fundScript for script
\* values whose address was paid before is treated as a first one: it rejects
\* with "Total less than fee" and does not broadcast exactly when the owner's
\* total is below fundValue + feeValue, and otherwise it builds another
\* transaction paying fundValue to the script address and broadcasts it; the
\* transaction is on chain once the broadcast has succeeded.
C3_RepeatFundNotAbsorbed ==
  \A p \in Procs :
    (/\ inv[p].op = "fundScript"
     /\ inv[p].fundedBefore
     /\ "estimateFeeValue.ok" \in Calls(p))
    => IF inv[p].totalUnspent < inv[p].fundValue + inv[p].feeValue
       THEN /\ "broadcastTx" \notin Calls(p)
            /\ inv[p].pc = "done"
            /\ inv[p].promise.state = "rejected"
            /\ inv[p].promise.value.err.kind = "Total less than fee"
       ELSE /\ "broadcastTx" \in Calls(p)
            /\ inv[p].txRaw.outs[1] =
                 [address |-> createScript(inv[p].scriptValues),
                  value |-> inv[p].fundValue]
            /\ "broadcastTx.ok" \in Calls(p) =>
                 /\ inv[p].txRaw \in FundingTxs(inv[p].scriptValues)
                 /\ inv[p].promise.state = "resolved"

\* C3 witness: a repeated fundScript has put a second funding transaction for
\* the same script values on chain
C3_SecondFundingOnChain ==
  \E p \in Procs :
    /\ inv[p].op = "fundScript"
    /\ inv[p].fundedBefore
    /\ "broadcastTx.ok" \in Calls(p)
    /\ Cardinality(FundingTxs(inv[p].scriptValues)) >= 2

\* the satoshis of the output an input spends (a txid is its transaction's content)
InputValue(i) == i.txid.id.outs[i.vout + 1].value

RECURSIVE SumInputs(_)
SumInputs(ins) ==
  IF ins = {} THEN 0
  ELSE LET i == CHOOSE x \in ins : TRUE
       IN InputValue(i) + SumInputs(ins \ {i})

\* C5: for every funding transaction fundScript builds and hands to
\* broadcastTx, the satoshis of its inputs add up to fundValue + change +
\* feeValue, the change is not negative, and feeValue is the oracle's quote of
\* this invocation.
C5_FundingConservation ==
  \A p \in Procs :
    (inv[p].op = "fundScript" /\ "broadcastTx" \in Calls(p))
    => LET tx == inv[p].txRaw
       IN /\ Len(tx.outs) = 2
          /\ tx.outs[1].value = inv[p].fundValue
          /\ SumInputs(tx.ins) = inv[p].fundValue + tx.outs[2].value + inv[p].feeValue
          /\ tx.outs[2].value >= 0
          /\ BN(inv[p].feeValue) = inv[p].quote

\* C5 witness: a funding transaction with a fee and a change above 0 has been
\* accepted by the chain
C5_FundedWithChangeAndFee ==
  \E p \in Procs :
    /\ inv[p].op = "fundScript"
    /\ "broadcastTx.ok" \in Calls(p)
    /\ inv[p].feeValue > 0
    /\ inv[p].txRaw.outs[2].value > 0
    /\ inv[p].txRaw \in chain

\* C6: every transaction the refund path builds has nLockTime equal to the
\* script values' lockTime, every transaction the secret-reveal path builds has
\* nLockTime 0, and every input of both has sequence number 0xfffffffe.
C6_RefundGatedByTimelock ==
  \A p \in Procs :
    (inv[p].op = "withdraw" /\ "broadcastTx" \in Calls(p))
    => LET tx == inv[p].txRaw
       IN /\ inv[p].isRefund => tx.lockTime = inv[p].scriptValues.lockTime
          /\ ~inv[p].isRefund => tx.lockTime = 0
          /\ \A i \in tx.ins : i.sequence = "0xfffffffe"

\* C6 witness: a refund transaction with inputs and a lockTime above 0 was built
C6_RefundBuilt ==
  \E p \in Procs :
    /\ inv[p].op = "withdraw" /\ inv[p].isRefund
    /\ "broadcastTx" \in Calls(p)
    /\ inv[p].txRaw.ins # {}
    /\ inv[p].scriptValues.lockTime > 0
    /\ inv[p].txRaw.lockTime = inv[p].scriptValues.lockTime

\* C7 (as the specification states it): in a withdraw or refund that
\* broadcasts, fetchTxInfo is called only after broadcastTx has answered and
\* the delay has elapsed; the invocation resolves with the txid only if the
\* lookup has seen the transaction, and otherwise its rejection carries the
\* txid.
C7_BroadcastThenConfirm ==
  \A p \in Procs :
    inv[p].op = "withdraw"
    => /\ "fetchTxInfo" \in Calls(p) =>
            /\ 0 < Position(p, "broadcastTx.ok")
            /\ Position(p, "broadcastTx.ok") < Position(p, "waitDelay")
            /\ Position(p, "waitDelay") < Position(p, "fetchTxInfo")
       /\ ("broadcastTx" \in Calls(p) /\ inv[p].promise.state = "resolved") =>
            /\ "fetchTxInfo.found" \in Calls(p)
            /\ inv[p].promise.value = TxIdValue(getId(inv[p].txRaw))
       /\ "fetchTxInfo.none" \in Calls(p) =>
            /\ inv[p].promise.state = "rejected"
            /\ inv[p].promise.value.str = "TX not found. Try it later. "
            /\ inv[p].promise.value.txId = getId(inv[p].txRaw)

\* C8 (as the specification states it): without an estimateFeeValue oracle
\* every fee fundScript, withdraw and refund use is 546 satoshis.
C8_DefaultFee ==
  ~options.estimateFeeValue =>
    \A p \in Procs :
      "estimateFeeValue.ok" \in Calls(p) => inv[p].feeValue = DefaultFeeValue

\* some report checkWithdraw can give names a spend that pays the
\* invocation's destination
SomeMatchingReport(p) ==
  /\ options.checkWithdraw
  /\ \E r \in checkWithdrawResults(createScript(inv[p].scriptValues)) :
       HasWithdraw(r, destAddress(inv[p].destinationAddress))

\* C9 (as the specification states it): a withdraw or refund whose broadcast
\* the gateway refuses as non-final rejects with 'Try it later'; one that
\* fetched a total of 0, with no matching already-withdrawn report, does not
\* broadcast and rejects with 'Address is empty'; a shortfall with a total
\* above 0 rejects with 'Less than fee'.
C9_RedeemErrorTranslation ==
  \A p \in Procs :
    inv[p].op = "withdraw"
    => /\ (inv[p].pc = "done" /\ inv[p].caught = NonFinalError) =>
            inv[p].promise = Reject(StrValue("Try it later"), <<>>)
       /\ (/\ "estimateFeeValue.ok" \in Calls(p)
           /\ inv[p].totalUnspent = 0
           /\ ~SomeMatchingReport(p)) =>
            /\ "broadcastTx" \notin Calls(p)
            /\ NoGatewayFailure(p) =>
                 inv[p].promise = Reject(StrValue("Address is empty"), <<>>)
       /\ (/\ inv[p].pc = "done"
           /\ inv[p].caught.kind = "Total less than fee"
           /\ inv[p].totalUnspent > 0) =>
            inv[p].promise = Reject(StrValue("Less than fee"), <<>>)

\* the indexes of the fetched unspents whose confidence reaches the level
ConfidentIndexes ==
  {i \in 1..Len(cs.unspents) :
     cs.task[i].confidence.n * cs.level.d >= cs.level.n * cs.task[i].confidence.d}

RECURSIVE SumIndexes(_)
\* the satoshis of the fetched unspents at the indexes
SumIndexes(indexes) ==
  IF indexes = {} THEN 0
  ELSE LET i == CHOOSE x \in indexes : TRUE
       IN cs.unspents[i].satoshis + SumIndexes(indexes \ {i})

\* C4: checkScript returns the ok (undefined) result only when expectedValue
\* is at most the total of the UTXOs at the script address whose confidence
\* reaches the expected confidence, expected.lockTime is at most the script's
\* lockTime and expected.recipientPublicKey is the script's.
C4_CheckerSoundness ==
  (cs.pc = "done" /\ ~cs.thrown /\ cs.result = "")
  => /\ cs.expectedValue <= SumIndexes(ConfidentIndexes)
     /\ cs.expected.lockTime <= cs.data.lockTime
     /\ cs.expected.recipientPublicKey = cs.data.recipientPublicKey

\* C4 witness: checkScript has returned ok although the filter dropped a UTXO
C4_OkWithDroppedUnspent ==
  /\ cs.pc = "done" /\ ~cs.thrown /\ cs.result = ""
  /\ ConfidentIndexes # {}
  /\ ConfidentIndexes # 1..Len(cs.unspents)

\* the confidence is the number 1
IsOne(confidence) == confidence.d # 0 /\ confidence.n = confidence.d

\* the confidence is min(1, fees / fast); fees in satoshis, fast a BigNumber
\* (fees / 0 is Infinity)
IsMinOfOneAndQuotient(confidence, fees, fast) ==
  IF BN(fees) >= fast THEN IsOne(confidence)
  ELSE /\ confidence.d # 0
       /\ confidence.n * fast = BN(fees) * confidence.d

\* the fetchConfidence call of the unspent at index has returned the
\* confidence of its confirmations at line 109
ReturnedEarly(index) ==
  /\ index \in 1..Len(cs.task)
  /\ cs.task[index].pc = "returned"

\* the confidence of the unspent at index is computed from its fees in this
\* step
Computes(index) ==
  /\ index \in 1..Len(cs.task)
  /\ cs.task[index].pc = "getTxFee.return"
  /\ cs'.task[index].pc = "computed"

\* the confidence from the fees does not decrease with the fees and is at
\* most 1
NonDecreasingAndCapped ==
  \A fast \in FeeQuotes, lo \in 1..MaxFee, hi \in 1..MaxFee :
    LET a == feesToConfidence(lo, fast)
        b == feesToConfidence(hi, fast)
    IN /\ a.d # 0 /\ a.n <= a.d
       /\ lo <= hi => a.n * b.d <= b.n * a.d

\* the filter has returned exactly the fetched unspents whose confidence
\* reaches the level, in their order
FilterIsExact ==
  (cs.pc = "done" /\ ~cs.thrown)
  => /\ Len(cs.confidentUnspents) = Cardinality(ConfidentIndexes)
     /\ {cs.confidentUnspents[k] : k \in 1..Len(cs.confidentUnspents)} =
          {cs.unspents[i] : i \in ConfidentIndexes}
     /\ \A k \in 1..(Len(cs.confidentUnspents) - 1) :
          cs.confidentUnspents[k].satoshis < cs.confidentUnspents[k + 1].satoshis

\* C10 (as the specification states it): for every threshold, every UTXO with
\* confirmations above 0 gets confidence exactly 1; the confidence from known
\* fees is min(1, fees / fast fee); the filter returns exactly the UTXOs whose
\* confidence reaches the threshold.
C10_ConfidenceMonotonicity ==
  /\ \A i \in 1..Len(cs.task) :
       (TaskDone(cs.task[i]) /\ cs.unspents[i].confirmations > 0)
       => IsOne(cs.task[i].confidence)
  /\ NonDecreasingAndCapped
  /\ FilterIsExact

\* C10 (amended): for every threshold of at most 1, every UTXO with
\* confirmations above 0 gets confidence exactly 1, with no lookup (above 1 it
\* is looked up as an unconfirmed one is); for a threshold above 0 every
\* unconfirmed UTXO is looked up, and below that it gets 0 with no lookup;
\* whenever the estimate has answered for a UTXO whose lookup gave fees, its
\* confidence becomes min(1, fees / fast fee), which does not decrease with the
\* fees and is at most 1; the filter returns exactly the UTXOs whose
\* confidence reaches the threshold.
C10_ConfidenceOfLookedUp ==
  /\ [](\A i \in 1..Len(cs.task) :
          /\ (cs.unspents[i].confirmations > 0 /\ cs.level.n <= cs.level.d)
             => ReturnedEarly(i) /\ IsOne(cs.task[i].confidence)
          /\ (cs.unspents[i].confirmations <= 0 /\ cs.level.n <= 0)
             => ReturnedEarly(i) /\ cs.task[i].confidence.n = 0
          /\ ReturnedEarly(i)
             => \/ cs.unspents[i].confirmations > 0 /\ cs.level.n <= cs.level.d
                \/ cs.unspents[i].confirmations <= 0 /\ cs.level.n <= 0)
  /\ [][\A i \in 1..MaxUnspents :
          Computes(i)
          => IsMinOfOneAndQuotient(cs'.task[i].confidence, cs.task[i].fees,
                                   cs.task[i].quote)]_vars
  /\ []NonDecreasingAndCapped
  /\ []FilterIsExact

\* C10 witness: the filter has kept a confirmed UTXO of confidence 1 and
\* dropped an unconfirmed one whose confidence from the fees is between 0 and 1
C10_KeptAndDropped ==
  /\ cs.pc = "done" /\ ~cs.thrown
  /\ Len(cs.confidentUnspents) = 1
  /\ \E i, j \in 1..Len(cs.task) :
       /\ cs.unspents[i].confirmations > 0
       /\ cs.task[i].pc = "returned"
       /\ i \in ConfidentIndexes
       /\ cs.unspents[j].confirmations = 0
       /\ cs.task[j].pc = "computed"
       /\ 0 < cs.task[j].confidence.n
       /\ cs.task[j].confidence.n < cs.task[j].confidence.d
       /\ j \notin ConfidentIndexes

\* the lookup of the unspent at index gave no fees: fetchTxInfo is not
\* configured, threw, answered nothing or answered a record without fees
LookupFailed(index) ==
  /\ cs.task[index].pc = "caught"
  /\ cs.task[index].fees = 0

\* C11: when fetchTxInfo is not configured, throws, answers nothing or answers
\* a record without fees, the confidence of the UTXO is the one of its
\* confirmations (1 above 0 confirmations, else 0), so an unconfirmed UTXO is
\* dropped for every threshold above 0, and checkScript, once fetchUnspents
\* has answered, returns a result and does not throw.
C11_GracefulDegradation ==
  /\ \A i \in 1..Len(cs.task) :
       /\ ~options.fetchTxInfo => cs.task[i].pc \in {"returned", "fetchTxInfo", "caught"}
       /\ LookupFailed(i) =>
            /\ cs.unspents[i].confirmations > 0 => IsOne(cs.task[i].confidence)
            /\ cs.unspents[i].confirmations <= 0 => cs.task[i].confidence = Zero
            /\ (/\ cs.pc = "done"
                /\ cs.unspents[i].confirmations <= 0
                /\ cs.level.n > 0) =>
                 \A k \in 1..Len(cs.confidentUnspents) :
                   cs.confidentUnspents[k] # cs.unspents[i]
  /\ cs.thrown => cs.pc = "done" /\ cs.task = <<>> /\ cs.unspents = <<>>
  /\ (cs.pc = "done" /\ ~cs.thrown) =>
       cs.result \in {"", "Expected script value", "Expected script lockTime",
                      "Expected script recipient publicKey",
                      "Expected script value with confidence above"}

\* C11 witness: without fetchTxInfo, checkScript has returned a diagnostic
\* after the filter dropped an unconfirmed UTXO whose lookup gave nothing
C11_DegradedAndReturned ==
  /\ ~options.fetchTxInfo
  /\ cs.pc = "done" /\ ~cs.thrown
  /\ cs.result = "Expected script value with confidence above"
  /\ \E i \in 1..Len(cs.task) :
       /\ LookupFailed(i)
       /\ cs.unspents[i].confirmations = 0
       /\ cs.level.n > 0
       /\ i \notin ConfidentIndexes

\* C12: whenever the owner's UTXO total is below fundValue + feeValue,
\* fundScript rejects with the "Total less than fee" error that carries the
\* total, the fee and the fund value, and in that invocation the
\* transaction-hash callback is not invoked and broadcastTx is not called.
C12_FunderInsufficientFunds ==
  \A p \in Procs :
    (/\ inv[p].op = "fundScript"
     /\ "estimateFeeValue.ok" \in Calls(p)
     /\ SumSatoshis(inv[p].unspents) < inv[p].fundValue + inv[p].feeValue)
    => /\ inv[p].pc = "done"
       /\ inv[p].promise.state = "rejected"
       /\ inv[p].promise.value.err.kind = "Total less than fee"
       /\ inv[p].promise.value.err.total = SumSatoshis(inv[p].unspents)
       /\ inv[p].promise.value.err.fee = inv[p].feeValue
       /\ inv[p].promise.value.err.fund = inv[p].fundValue
       /\ inv[p].hashes = <<>>
       /\ "handleTransactionHash" \notin Calls(p)
       /\ "broadcastTx" \notin Calls(p)
       /\ inv[p].txRaw = NoTx

\* C12 witness: a fundScript that was given a callback has rejected for a
\* total that covers the fund value but not the fee
C12_RejectedForTheFee ==
  \E p \in Procs :
    /\ inv[p].op = "fundScript" /\ inv[p].callback
    /\ inv[p].pc = "done"
    /\ inv[p].caught.kind = "Total less than fee"
    /\ inv[p].totalUnspent >= inv[p].fundValue
    /\ inv[p].totalUnspent > 0

\* how often an event stands in an invocation's log
Count(p, e) == Cardinality({i \in 1..Len(inv[p].log) : inv[p].log[i] = e})

\* the calls an invocation makes to the gateway
GatewayCalls ==
  {"fetchUnspents", "estimateFeeValue", "checkWithdraw", "broadcastTx", "fetchTxInfo"}

\* C13: in every invocation of fundScript, withdraw or refund each gateway
\* call, broadcastTx among them, is made at most once, and a gateway failure
\* ends the invocation rejected with that error: unchanged in fundScript, and
\* in withdraw and refund unchanged but for `non-final`, which becomes
\* 'Try it later'; nothing is called after a broadcast that threw.
C13_NoRetry ==
  \A p \in Procs :
    /\ \A e \in GatewayCalls : Count(p, e) <= 1
    /\ inv[p].caught.kind = "gateway" =>
         /\ inv[p].pc = "done"
         /\ inv[p].promise.state = "rejected"
         /\ inv[p].op = "fundScript" => inv[p].promise.value = ErrValue(inv[p].caught)
         /\ inv[p].op = "withdraw" =>
              inv[p].promise.value =
                IF inv[p].caught.resText = "non-final" THEN StrValue("Try it later")
                ELSE ErrValue(inv[p].caught)
    /\ "broadcastTx.throw" \in Calls(p) =>
         /\ inv[p].caught.kind = "gateway"
         /\ inv[p].log[Len(inv[p].log)] = "broadcastTx.throw"
         /\ "broadcastTx.ok" \notin Calls(p)

\* C13 witness: an invocation has ended on a broadcast of a transaction with
\* inputs that the gateway refused, after one call of broadcastTx
C13_EndedOnRefusedBroadcast ==
  \E p \in Procs :
    /\ inv[p].pc = "done"
    /\ "broadcastTx.throw" \in Calls(p)
    /\ Count(p, "broadcastTx") = 1
    /\ inv[p].txRaw.ins # {}
    /\ inv[p].promise.state = "rejected"

\* C14 (as the specification states it): the amount given to fundScript and
\* the expected.value given to checkScript, decimal BTC times 1e8, become
\* satoshis by dropping the fraction of a satoshi. (The amounts of the model
\* are in quarters of a satoshi.)
C14_ConversionTruncates ==
  /\ \A p \in Procs :
       (inv[p].op = "fundScript" /\ "fetchUnspents.ok" \in Calls(p))
       => inv[p].fundValue = inv[p].amount \div 4
  /\ cs.pc \in {"filter", "done"} /\ ~cs.thrown
       => cs.expectedValue = cs.expected.value \div 4

\* C14 (amended): the amount and expected.value times 1e8 become satoshis by
\* rounding to the nearest satoshi, half a satoshi upwards (integerValue()
\* with BigNumber's default ROUND_HALF_UP): the satoshis are less than half a
\* satoshi below the amount and at most half a satoshi above it.
C14_ConversionRoundsHalfUp ==
  /\ \A p \in Procs :
       (inv[p].op = "fundScript" /\ "fetchUnspents.ok" \in Calls(p))
       => /\ 4 * inv[p].fundValue - inv[p].amount \in -1..2
          /\ "broadcastTx" \in Calls(p) =>
               4 * inv[p].txRaw.outs[1].value - inv[p].amount \in -1..2
  /\ cs.pc \in {"filter", "done"} /\ ~cs.thrown
       => 4 * cs.expectedValue - cs.expected.value \in -1..2

\* C14 witness: a funding transaction pays a whole satoshi to the script
\* address for an amount of half a satoshi
C14_HalfSatoshiFundedAsOne ==
  \E p \in Procs :
    /\ inv[p].op = "fundScript"
    /\ "broadcastTx.ok" \in Calls(p)
    /\ inv[p].amount = 2
    /\ inv[p].txRaw.outs[1].value = 1
    /\ inv[p].txRaw \in chain

\* C15: in every fundScript that reaches the broadcast, a callback that was
\* given is invoked exactly once, with the txid of the transaction built, and
\* before broadcastTx is called, also when the broadcast then fails; without a
\* callback nothing is invoked.
C15_FundingCallbackOrder ==
  \A p \in Procs :
    (inv[p].op = "fundScript" /\ "broadcastTx" \in Calls(p))
    => /\ inv[p].callback =>
            /\ inv[p].hashes = <<getId(inv[p].txRaw)>>
            /\ Count(p, "handleTransactionHash") = 1
            /\ 0 < Position(p, "handleTransactionHash")
            /\ Position(p, "handleTransactionHash") < Position(p, "broadcastTx")
       /\ ~inv[p].callback =>
            /\ inv[p].hashes = <<>>
            /\ "handleTransactionHash" \notin Calls(p)

\* C15 witness: the callback got the txid of a funding transaction whose
\* broadcast the gateway then refused
C15_CallbackBeforeRefusedBroadcast ==
  \E p \in Procs :
    /\ inv[p].op = "fundScript" /\ inv[p].callback
    /\ "broadcastTx.throw" \in Calls(p)
    /\ inv[p].hashes = <<getId(inv[p].txRaw)>>
    /\ inv[p].txRaw \notin chain
    /\ inv[p].promise.state = "rejected"

\* the outpoints a set of inputs or of unspents names
Outpoints(set) == {[txid |-> x.txid, vout |-> x.vout] : x \in set}

\* C16: withdraw and refund call broadcastTx only when the UTXO total at the
\* script address is at least the fee; the transaction they broadcast spends
\* every fetched UTXO of the script address and has one output, which pays
\* the total less the fee (not below 0) to the destinationAddress of the
\* caller or, when none was given, to the owner's address.
C16_RedeemTransactionShape ==
  \A p \in Procs :
    (inv[p].op = "withdraw" /\ "broadcastTx" \in Calls(p))
    => LET tx == inv[p].txRaw
           total == SumSatoshis(inv[p].unspents)
       IN /\ total >= inv[p].feeValue
          /\ \A u \in inv[p].unspents : u.address = createScript(inv[p].scriptValues)
          /\ "broadcastTx.ok" \notin Calls(p) =>
               inv[p].unspents = fetchUnspents(createScript(inv[p].scriptValues))
          /\ Outpoints(tx.ins) = Outpoints(inv[p].unspents)
          /\ Cardinality(tx.ins) = Cardinality(inv[p].unspents)
          /\ Len(tx.outs) = 1
          /\ tx.outs[1].value = total - inv[p].feeValue
          /\ tx.outs[1].value >= 0
          /\ tx.outs[1].address =
               IF inv[p].destinationAddress = NoAddress THEN getAddress
               ELSE inv[p].destinationAddress

\* C16 witness: the chain has accepted a redeem transaction that pays the
\* total less a fee above 0 to a destination the caller gave
C16_RedeemedToDestination ==
  \E p \in Procs :
    /\ inv[p].op = "withdraw"
    /\ "broadcastTx.ok" \in Calls(p)
    /\ inv[p].destinationAddress = OtherAddress
    /\ inv[p].feeValue > 0
    /\ inv[p].txRaw.ins # {}
    /\ inv[p].txRaw.outs[1].address = OtherAddress
    /\ inv[p].txRaw \in chain

\* C19: without fetchTxInfo no withdraw or refund that broadcasts ever
\* resolves: after a broadcastTx that succeeded the check finds the undefined
\* of the default lookup, and the invocation rejects with 'TX not found. Try
\* it later. ' although the chain has the transaction.
C19_NoLookupNeverResolves ==
  ~options.fetchTxInfo =>
    \A p \in Procs :
      (inv[p].op = "withdraw" /\ "broadcastTx" \in Calls(p))
      => /\ inv[p].promise.state # "resolved"
         /\ "fetchTxInfo.found" \notin Calls(p)
         /\ (inv[p].pc = "done" /\ "broadcastTx.ok" \in Calls(p)) =>
              /\ "fetchTxInfo.none" \in Calls(p)
              /\ inv[p].promise =
                   Reject(StrValue("TX not found. Try it later. "), <<>>)
              /\ inv[p].txRaw \in chain

\* C19 witness: without fetchTxInfo a withdraw has rejected with 'TX not
\* found' after the chain accepted its transaction
C19_SentButRejected ==
  \E p \in Procs :
    /\ ~options.fetchTxInfo
    /\ inv[p].op = "withdraw" /\ inv[p].pc = "done"
    /\ "broadcastTx.ok" \in Calls(p)
    /\ inv[p].txRaw \in chain
    /\ inv[p].promise.state = "rejected"
    /\ inv[p].promise.value.str = "TX not found. Try it later. "

\* the fetchConfidence calls that differ between this state and the next
ChangedTasks ==
  {i \in 1..Len(cs.task) : cs'.task[i] # cs.task[i]}

\* C20: the lookups of the filter are started together, one per fetched UTXO;
\* while they run, each step is a step of one lookup that has not ended, and
\* the fetched UTXOs and the threshold stay as they are; a lookup that ended
\* without fees has the confidence of its own UTXO's confirmations; and in
\* whatever order the lookups end, the returned list is exactly the fetched
\* UTXOs whose own confidence reaches the threshold, in their input order.
C20_CompletionOrderIndependence ==
  /\ [](cs.pc = "filter" => Len(cs.task) = Len(cs.unspents))
  /\ [][cs.pc = "filter"
        => /\ cs'.unspents = cs.unspents
           /\ cs'.level = cs.level
           /\ Len(cs'.task) = Len(cs.task)
           /\ Cardinality(ChangedTasks) <= 1
           /\ \A i \in ChangedTasks : ~TaskDone(cs.task[i])]_vars
  /\ [](\A i \in 1..Len(cs.task) :
          cs.task[i].pc \in {"returned", "caught"}
          => cs.task[i].confidence =
               confirmationsToConfidence(cs.unspents[i].confirmations))
  /\ []FilterIsExact

\* C20 witness: the filter has returned the second of two unconfirmed UTXOs
\* and dropped the first, both judged by their fees, after the fast-fee query
\* of the second answered before the one of the first: the shared fee field
\* holds the quote that gave the first its confidence of 1/2, not the lower
\* one that gave the second its confidence of 1
C20_LaterAnsweredFirst ==
  /\ cs.pc = "done" /\ ~cs.thrown
  /\ Len(cs.unspents) = 2
  /\ cs.task[1].pc = "computed" /\ cs.task[2].pc = "computed"
  /\ cs.task[1].fees = 1 /\ cs.task[2].fees = 1
  /\ cs.task[1].confidence = Ratio(BN(1), BN(2))
  /\ IsOne(cs.task[2].confidence)
  /\ feeValue = BN(2)
  /\ cs.confidentUnspents = <<cs.unspents[2]>>

\* the invocation has resumed from getTxFee
Resumed(p) == "estimateFeeValue.ok" \in Calls(p)

\* the invocations and lookups whose record differs between this state and
\* the next
ChangedOperations ==
  {p \in Procs : inv'[p] # inv[p]} \cup (IF cs' # cs THEN {"checkScript"} ELSE {})

\* C17: a fundScript or withdraw that has resumed from getTxFee uses the fee
\* its own estimate returned, whatever this.feeValue holds by then: its fee
\* is that estimate in satoshis, the change of the funding transaction is
\* total - fundValue - fee and the redeem output is total - fee; a confidence
\* from fees is min(1, fees / the lookup's own estimate); and a step that
\* writes this.feeValue changes the record of one operation only.
C17_SharedFeeNotAuthoritative ==
  /\ [](\A p \in Procs :
          Resumed(p)
          => /\ BN(inv[p].feeValue) = inv[p].quote
             /\ (inv[p].op = "fundScript" /\ inv[p].txRaw # NoTx)
                => inv[p].txRaw.outs[2].value =
                     inv[p].totalUnspent - inv[p].fundValue
                       - integerValue(inv[p].quote)
             /\ (inv[p].op = "withdraw" /\ inv[p].txRaw # NoTx)
                => inv[p].txRaw.outs[1].value =
                     inv[p].totalUnspent - integerValue(inv[p].quote))
  /\ [][\A i \in 1..MaxUnspents :
          Computes(i)
          => IsMinOfOneAndQuotient(cs'.task[i].confidence, cs.task[i].fees,
                                   cs.task[i].quote)]_vars
  /\ [][feeValue' # feeValue => Cardinality(ChangedOperations) = 1]_vars

\* C17 witness: a funding transaction is on the chain whose fundScript resumed
\* from getTxFee after another operation's estimate had overwritten
\* this.feeValue, while a withdraw and a confidence lookup have also used
\* their estimates and this.feeValue holds a value that is not the
\* fundScript's estimate
C17_BuiltAfterOverwrite ==
  /\ inv["a"].op = "fundScript" /\ inv["a"].overwritten
  /\ inv["a"].txRaw \in chain
  /\ inv["a"].feeValue > 0
  /\ feeValue # inv["a"].quote
  /\ inv["b"].op = "withdraw" /\ Resumed("b") /\ inv["b"].quote # inv["a"].quote
  /\ cs.task # <<>> /\ cs.task[1].pc = "computed"

\* the fundScript invocation has built its transaction
FundBuilt(p) == inv[p].op = "fundScript" /\ inv[p].txRaw # NoTx

\* C18: a fundScript selects every UTXO it fetched at the owner's address as
\* an input, whatever another invocation in flight has selected: nothing is
\* reserved, so every UTXO two fundScript invocations both fetched is an
\* input of both their transactions.
C18_ConcurrentFundingDoubleSpend ==
  \A p \in Procs, q \in Procs :
    (FundBuilt(p) /\ FundBuilt(q))
    => /\ Outpoints(inv[p].txRaw.ins) = Outpoints(inv[p].unspents)
       /\ \A u \in inv[p].unspents : u.address = getAddress
       /\ (Outpoints(inv[p].unspents) \cap Outpoints(inv[q].unspents))
            \subseteq (Outpoints(inv[p].txRaw.ins) \cap Outpoints(inv[q].txRaw.ins))

\* C18 witness: two fundScript invocations for different swaps have both
\* called broadcastTx with transactions that spend the same UTXO of the
\* owner; the chain has taken the first and refused the second
C18_BothBroadcastSameInput ==
  /\ FundBuilt("a") /\ FundBuilt("b")
  /\ inv["a"].scriptValues # inv["b"].scriptValues
  /\ "broadcastTx" \in Calls("a") /\ "broadcastTx" \in Calls("b")
  /\ Outpoints(inv["a"].txRaw.ins) \cap Outpoints(inv["b"].txRaw.ins) # {}
  /\ inv["a"].txRaw # inv["b"].txRaw
  /\ inv["a"].txRaw \in chain
  /\ "broadcastTx.throw" \in Calls("b")
  /\ inv["b"].txRaw \notin chain

====
